---- MODULE Spec2Model ----
(***************************************************************************)
(* Apar-tui: a terminal dashboard over the AppArmor status tool.           *)
(* The model follows src/src/main.rs: the registry (App.profiles and       *)
(* App.state), the status parser inside App::load_profiles, the selection  *)
(* moves, the command dispatch of change_mode / reload_all / edit_profile, *)
(* and the interaction loop of main.                                       *)
(***************************************************************************)
EXTENDS Integers, Sequences, FiniteSets, TLC

VARIABLES pc, profiles, selected, stdout, last, overflowChecks, rawMode, altScreen

vars == <<pc, profiles, selected, stdout, last, overflowChecks, rawMode, altScreen>>

(***************************************************************************)
(* Bounds of the exploration.                                              *)
(***************************************************************************)
\* Longest raw status text (in characters) given to the parser on its own.
MaxTextLen == 6
\* Width of usize in bits, narrowed so that wrapped values stay enumerable.
UsizeBits == 3
\* Longest profile identifier (in characters) given to the edit action on
\* its own.
MaxIdLen == 4

(***************************************************************************)
(* Option<T>: None is the empty sequence, Some(x) the one-element one.     *)
(***************************************************************************)
None == <<>>
Some(x) == <<x>>
IsSome(o) == Len(o) = 1
Unwrap(o) == o[1]

(***************************************************************************)
(* Text.  A text is a sequence of characters.  Each of the four section    *)
(* markers of load_profiles is carried as one character of the alphabet,   *)
(* so that "line contains the marker" is membership of that character.     *)
(***************************************************************************)
EnforceMarker == "profiles are in enforce mode."
ComplainMarker == "profiles are in complain mode."
KillMarker == "profiles are in kill mode."
AuditMarker == "profiles are in audit mode."
Markers == {EnforceMarker, ComplainMarker, KillMarker, AuditMarker}
NL == "\n"
Space == " "
\* The characters the parser is explored over: whitespace, the two
\* identifier openers, some other character, the newline and the markers.
ParseChars == {Space, "/", "{", "x", NL} \cup Markers

Modes == {"Enforce", "Complain", "Audit", "Disable", "Kill"}

RECURSIVE SplitLines(_, _)
\* str::lines on the text: cut at every newline; cur is the line being read.
\* A final line ending adds no empty last line.
SplitLines(text, cur) ==
    IF text = <<>> THEN (IF cur = <<>> THEN <<>> ELSE <<cur>>)
    ELSE IF Head(text) = NL THEN <<cur>> \o SplitLines(Tail(text), <<>>)
    ELSE SplitLines(Tail(text), Append(cur, Head(text)))

Lines(text) == SplitLines(text, <<>>)

IsWhitespace(c) == c = Space

RECURSIVE TrimEnd(_)
TrimEnd(line) ==
    IF line = <<>> THEN <<>>
    ELSE IF IsWhitespace(line[Len(line)]) THEN TrimEnd(SubSeq(line, 1, Len(line) - 1))
    ELSE line

RECURSIVE TrimStart(_)
TrimStart(line) ==
    IF line = <<>> THEN <<>>
    ELSE IF IsWhitespace(Head(line)) THEN TrimStart(Tail(line))
    ELSE line

Trim(line) == TrimStart(TrimEnd(line))

Contains(line, marker) == \E i \in 1..Len(line) : line[i] = marker

StartsWith(line, c) == line # <<>> /\ Head(line) = c

\* Full-line equality with a marker instead of containment.
HeaderModeExact(trimmed) ==
    IF trimmed = <<EnforceMarker>> THEN Some("Enforce")
    ELSE IF trimmed = <<ComplainMarker>> THEN Some("Complain")
    ELSE IF trimmed = <<KillMarker>> THEN Some("Kill")
    ELSE IF trimmed = <<AuditMarker>> THEN Some("Audit")
    ELSE None

\* The marker chain with a further arm that takes any line opening with
\* another word for the header of the disabled profiles.
HeaderModeWithDisabled(trimmed) ==
    IF Contains(trimmed, EnforceMarker) THEN Some("Enforce")
    ELSE IF Contains(trimmed, ComplainMarker) THEN Some("Complain")
    ELSE IF Contains(trimmed, KillMarker) THEN Some("Kill")
    ELSE IF Contains(trimmed, AuditMarker) THEN Some("Audit")
    ELSE IF StartsWith(trimmed, "x") THEN Some("Disable")
    ELSE None

\* The if / else-if chain on the markers: the mode a header line sets, or
\* None for a line that is no header.
HeaderMode(trimmed) ==
    IF Contains(trimmed, EnforceMarker) THEN Some("Enforce")
    ELSE IF Contains(trimmed, ComplainMarker) THEN Some("Complain")
    ELSE IF Contains(trimmed, KillMarker) THEN Some("Kill")
    ELSE IF Contains(trimmed, AuditMarker) THEN Some("Audit")
    ELSE None

\* The identifier test without the starts_with conditions.
IsProfileLineAny(profile_line) == profile_line # <<>>

\* The test on the trimmed line that lets it name a profile.
IsProfileLine(profile_line) ==
    /\ profile_line # <<>>
    /\ (StartsWith(profile_line, "/") \/ StartsWith(profile_line, "{"))

RECURSIVE ParseLines(_, _, _)
\* The for loop over the lines: state is the current mode (Option<Mode>),
\* acc is self.profiles as built so far.
ParseLines(lines, state, acc) ==
    IF lines = <<>> THEN acc
    ELSE LET trimmed == TrimEnd(Head(lines))
             header == HeaderMode(trimmed)
             profile_line == Trim(trimmed)
         IN  IF IsSome(header) THEN ParseLines(Tail(lines), header, acc)
             ELSE IF IsProfileLine(profile_line) /\ IsSome(state)
                  THEN ParseLines(Tail(lines), state,
                                  Append(acc, <<profile_line, Unwrap(state)>>))
                  ELSE ParseLines(Tail(lines), state, acc)

\* self.profiles.clear() left out: the old entries stay in the vector.
ClearedKeep(old) == old

\* self.profiles.clear()
Cleared(old) == <<>>

\* A status query: how the process ended and, when it ran, what it printed.
Outcomes == {"ok", "nonzero", "nostart"}
Query(status, out) == [status |-> status, out |-> out]

\* The vector is emptied before the outcome of the query is looked at.
load_profiles_clear_first(old, q) ==
    IF q.status # "ok" THEN <<>>
    ELSE ParseLines(Lines(q.out), None, Cleared(old))

\* load_profiles: the value of self.profiles when it returns.
load_profiles(old, q) ==
    IF q.status # "ok" THEN old
    ELSE ParseLines(Lines(q.out), None, Cleared(old))

\* load_profiles: Ok(()) or Err.
load_result(q) == IF q.status = "ok" THEN "Ok" ELSE "Err"


(***************************************************************************)
(* usize arithmetic.  `len - 1` on an empty vector overflows: a build with *)
(* overflow checks panics there, a build without them wraps.               *)
(***************************************************************************)
UsizeModulus == 2 ^ UsizeBits
UsizeMax == UsizeModulus - 1
WrappingSub(a, b) == (a - b) % UsizeModulus

\* What an operation of App hands back: the registry it leaves, the external
\* commands it ran (in order), the text a successful status query printed,
\* and how it ended ("Ok", "Err", or "panic").
Ret(p, s, cmds, out, result) ==
    [profiles |-> p, selected |-> s, cmds |-> cmds, out |-> out, result |-> result]

Cmd(name, arg, status) == [cmd |-> name, arg |-> arg, status |-> status]

\* next with `>` where the code has `>=`.
next_off_by_one(p, s, checks) ==
    IF ~IsSome(s) THEN Ret(p, Some(0), <<>>, None, "Ok")
    ELSE IF Len(p) = 0 /\ checks THEN Ret(p, s, <<>>, None, "panic")
    ELSE LET i == Unwrap(s)
             lastIdx == WrappingSub(Len(p), 1)
         IN  Ret(p, Some(IF i > lastIdx THEN 0 ELSE (i + 1) % UsizeModulus),
                 <<>>, None, "Ok")

\* App::next
next(p, s, checks) ==
    IF ~IsSome(s) THEN Ret(p, Some(0), <<>>, None, "Ok")
    ELSE IF Len(p) = 0 /\ checks THEN Ret(p, s, <<>>, None, "panic")
    ELSE LET i == Unwrap(s)
             lastIdx == WrappingSub(Len(p), 1)
         IN  Ret(p, Some(IF i >= lastIdx THEN 0 ELSE i + 1), <<>>, None, "Ok")

\* App::previous
previous(p, s, checks) ==
    IF ~IsSome(s) THEN Ret(p, Some(0), <<>>, None, "Ok")
    ELSE LET i == Unwrap(s)
         IN  IF i = 0
             THEN IF Len(p) = 0 /\ checks THEN Ret(p, s, <<>>, None, "panic")
                  ELSE Ret(p, Some(WrappingSub(Len(p), 1)), <<>>, None, "Ok")
             ELSE Ret(p, Some(i - 1), <<>>, None, "Ok")

\* status.success() taken to hold for every process that started.
StatusSuccessLax(status) == status # "nostart"

\* ExitStatus::success
StatusSuccess(status) == status = "ok"

\* A load that also moves the selection to the first entry it loaded.
LoadSelectingFirst(p, s, cmds, q) ==
    Ret(load_profiles(p, q),
        IF q.status = "ok" /\ load_profiles(p, q) # <<>> THEN Some(0) ELSE s,
        Append(cmds, Cmd("aa-status", <<>>, q.status)),
        IF q.status = "ok" THEN Some(q.out) ELSE None,
        load_result(q))

\* load_profiles as a step of an operation that already ran cmds.
Load(p, s, cmds, q) ==
    Ret(load_profiles(p, q), s,
        Append(cmds, Cmd("aa-status", <<>>, q.status)),
        IF q.status = "ok" THEN Some(q.out) ELSE None,
        load_result(q))

\* The match of change_mode: the tool of a mode, None for Kill.
ModeCommand(new_mode) ==
    CASE new_mode = "Enforce" -> Some("aa-enforce")
      [] new_mode = "Complain" -> Some("aa-complain")
      [] new_mode = "Audit" -> Some("aa-audit")
      [] new_mode = "Disable" -> Some("aa-disable")
      [] new_mode = "Kill" -> None

\* App::change_mode; st is how `sudo <tool> <profile>` ended, q the status
\* query that follows a success.
change_mode(p, s, new_mode, st, q) ==
    IF ~IsSome(s) THEN Ret(p, s, <<>>, None, "Ok")
    ELSE IF Unwrap(s) >= Len(p) THEN Ret(p, s, <<>>, None, "panic")
    ELSE LET profile == p[Unwrap(s) + 1][1]
             cmd == ModeCommand(new_mode)
         IN  IF ~IsSome(cmd) THEN Ret(p, s, <<>>, None, "Ok")
             ELSE LET ran == <<Cmd(Unwrap(cmd), profile, st)>>
                  IN  IF st = "nostart" THEN Ret(p, s, ran, None, "Err")
                      ELSE IF StatusSuccess(st) THEN Load(p, s, ran, q)
                      ELSE Ret(p, s, ran, None, "Err")

\* reload_all querying the status whatever the exit status of the reload.
reload_all_query_always(p, s, before, st, q) ==
    LET ran == Append(before, Cmd("systemctl", <<"reload", "apparmor">>, st))
    IN  IF st = "nostart" THEN Ret(p, s, ran, None, "Err")
        ELSE Load(p, s, ran, q)

\* App::reload_all, entered after the commands in `before` were run.
reload_all(p, s, before, st, q) ==
    LET ran == Append(before, Cmd("systemctl", <<"reload", "apparmor">>, st))
    IN  IF st = "nostart" THEN Ret(p, s, ran, None, "Err")
        ELSE IF StatusSuccess(st) THEN Load(p, s, ran, q)
        ELSE Ret(p, s, ran, None, "Ok")

RECURSIVE ReplaceOnce(_, _, _)
\* A replace that stops after the first occurrence.
ReplaceOnce(str, from, to) ==
    IF str = <<>> THEN <<>>
    ELSE IF Head(str) = from THEN <<to>> \o Tail(str)
    ELSE <<Head(str)>> \o ReplaceOnce(Tail(str), from, to)

RECURSIVE Replace(_, _, _)
\* str::replace for a one-character pattern.
Replace(str, from, to) ==
    IF str = <<>> THEN <<>>
    ELSE <<IF Head(str) = from THEN to ELSE Head(str)>> \o Replace(Tail(str), from, to)

PolicyRoot == "/etc/apparmor.d/"

\* The policy file the editor is given for a profile identifier.
edit_path(profile) ==
    LET file == IF StartsWith(profile, "/") THEN Replace(Tail(profile), "/", ".")
                ELSE profile
    IN  <<PolicyRoot>> \o file

\* App::edit_profile; ed is how the editor ended, st the service reload,
\* q the status query.
edit_profile(p, s, ed, st, q) ==
    IF ~IsSome(s) THEN Ret(p, s, <<>>, None, "Ok")
    ELSE IF Unwrap(s) >= Len(p) THEN Ret(p, s, <<>>, None, "panic")
    ELSE LET profile == p[Unwrap(s) + 1][1]
             ran == <<Cmd("vim", edit_path(profile), ed)>>
         IN  IF ed = "nostart" THEN Ret(p, s, ran, None, "Err")
             ELSE IF StatusSuccess(ed) THEN reload_all(p, s, ran, st, q)
             ELSE Ret(p, s, ran, None, "Ok")


(***************************************************************************)
(* The status tool's answers the interaction loop is explored with.        *)
(***************************************************************************)
RECURSIVE JoinLines(_)
JoinLines(ls) ==
    IF ls = <<>> THEN <<>> ELSE Head(ls) \o <<NL>> \o JoinLines(Tail(ls))

Header(count, marker) == <<count, Space, marker>>
Indented(id) == <<Space, Space, Space>> \o id
ModuleLine == <<"apparmor", Space, "module", Space, "is", Space, "loaded.">>
IdA == <<"/", "a">>
IdB == <<"/", "a", "/", "b">>
IdH == <<"{", "h", "}">>

Snapshots ==
    { <<>>,
      JoinLines(<<ModuleLine, Header("0", EnforceMarker), Header("0", ComplainMarker)>>),
      JoinLines(<<ModuleLine, Header("1", EnforceMarker), Indented(IdA)>>),
      JoinLines(<<Header("1", EnforceMarker), Indented(IdA),
                  Header("1", ComplainMarker), Indented(IdB)>>),
      JoinLines(<<Header("1", EnforceMarker), Indented(IdB),
                  Header("1", ComplainMarker), Indented(IdA)>>),
      JoinLines(<<Header("2", EnforceMarker), Indented(IdA), Indented(IdB),
                  Header("1", ComplainMarker), Indented(IdH)>>),
      JoinLines(<<Header("1", KillMarker), Indented(IdA),
                  Header("1", AuditMarker), Indented(IdH)>>) }

\* Every way a status query can end.
Queries ==
    {Query("nonzero", <<>>), Query("nostart", <<>>)}
        \cup {Query("ok", out) : out \in Snapshots}

(***************************************************************************)
(* The interaction loop.  pc is the place of main:                         *)
(*   "start"  before enable_raw_mode        "load"  before the first load  *)
(*   "draw"   at terminal.draw              "poll"  at event::poll         *)
(*   "teardown" after the break             "exit_ok" / "exit_err" /       *)
(*   "panicked": main has returned Ok, returned Err, or panicked.          *)
(* last records the operation that led to the current state: its name,     *)
(* the registry it started from, the commands it ran and its result.       *)
(***************************************************************************)
NoLast ==
    [op |-> "none", arg |-> "", profiles0 |-> <<>>, selected0 |-> None,
     cmds |-> <<>>, result |-> "none"]

Init ==
    /\ pc = "start"
    /\ profiles = <<>>
    /\ selected = None
    /\ stdout = <<>>
    /\ last = NoLast
    /\ overflowChecks \in BOOLEAN
    /\ rawMode = FALSE
    /\ altScreen = FALSE

\* enable_raw_mode, EnterAlternateScreen, Terminal::new, each of which may
\* fail and make main return early.
Setup ==
    /\ pc = "start"
    /\ \E failAt \in {"none", "enable_raw_mode", "EnterAlternateScreen", "Terminal::new"} :
         /\ rawMode' = (failAt # "enable_raw_mode")
         /\ altScreen' = (failAt \notin {"enable_raw_mode", "EnterAlternateScreen"})
         /\ pc' = IF failAt = "none" THEN "load" ELSE "exit_err"
    /\ last' = [NoLast EXCEPT !.op = "setup"]
    /\ UNCHANGED <<profiles, selected, stdout, overflowChecks>>

\* The state an operation of App leaves behind, and where the loop goes.
Apply(op, arg, r, okPc) ==
    /\ profiles' = r.profiles
    /\ selected' = r.selected
    /\ stdout' = IF IsSome(r.out) THEN Unwrap(r.out) ELSE stdout
    /\ last' = [op |-> op, arg |-> arg, profiles0 |-> profiles, selected0 |-> selected,
                cmds |-> r.cmds, result |-> r.result]
    /\ pc' = okPc
    /\ UNCHANGED <<overflowChecks, rawMode, altScreen>>

\* Selection of the first entry after the initial load.
InitialSelection(p, s) == IF p # <<>> THEN Some(0) ELSE s

\* App::new, the first load_profiles (an error ends main) and the first
\* selection.
InitialLoad ==
    /\ pc = "load"
    /\ \E q \in Queries :
         LET r == Load(<<>>, None, <<>>, q)
         IN  Apply("initial_load", "", 
                   [r EXCEPT !.selected = InitialSelection(r.profiles, r.selected)],
                   IF r.result = "Ok" THEN "draw" ELSE "exit_err")

\* What rendering the list leaves in the ListState it is lent: the widget
\* brings the selection back into the list it draws.
Rendered(p, s) ==
    IF p = <<>> THEN None
    ELSE IF IsSome(s) /\ Unwrap(s) >= Len(p) THEN Some(Len(p) - 1)
    ELSE s

\* terminal.draw.  The list widget is lent app.state mutably; it renders
\* (and may adjust the selection) when it has an area to draw in, and
\* leaves the state alone when it has none.  The draw may fail.
Draw ==
    /\ pc = "draw"
    /\ \E outcome \in {"rendered", "no_area", "error"} :
         /\ selected' = IF outcome = "rendered" THEN Rendered(profiles, selected)
                        ELSE selected
         /\ pc' = IF outcome = "error" THEN "exit_err" ELSE "poll"
    /\ last' = [NoLast EXCEPT !.op = "draw"]
    /\ UNCHANGED <<profiles, stdout, overflowChecks, rawMode, altScreen>>

\* event::poll timing out, or an event that is no key, or a key that is
\* bound to nothing.
NoAction ==
    /\ pc = "poll"
    /\ pc' = "draw"
    /\ last' = [NoLast EXCEPT !.op = "no_action"]
    /\ UNCHANGED <<profiles, selected, stdout, overflowChecks, rawMode, altScreen>>

\* event::poll or event::read returning an error.
PollError ==
    /\ pc = "poll"
    /\ pc' = "exit_err"
    /\ last' = [NoLast EXCEPT !.op = "poll_error"]
    /\ UNCHANGED <<profiles, selected, stdout, overflowChecks, rawMode, altScreen>>

\* Where the loop is after an operation: back at the draw, or gone.
After(r) == IF r.result = "panic" THEN "panicked" ELSE "draw"

KeyQuit ==
    /\ pc = "poll"
    /\ pc' = "teardown"
    /\ last' = [NoLast EXCEPT !.op = "quit"]
    /\ UNCHANGED <<profiles, selected, stdout, overflowChecks, rawMode, altScreen>>

KeyDown ==
    /\ pc = "poll"
    /\ LET r == next(profiles, selected, overflowChecks)
       IN  Apply("next", "", r, After(r))

KeyUp ==
    /\ pc = "poll"
    /\ LET r == previous(profiles, selected, overflowChecks)
       IN  Apply("previous", "", r, After(r))

\* The keys e, c, a, d.
KeyModes == {"Enforce", "Complain", "Audit", "Disable"}

KeyMode ==
    /\ pc = "poll"
    /\ \E new_mode \in KeyModes, st \in Outcomes, q \in Queries :
         LET r == change_mode(profiles, selected, new_mode, st, q)
         IN  Apply("change_mode", new_mode, r, After(r))

KeyRefresh ==
    /\ pc = "poll"
    /\ \E q \in Queries :
         LET r == Load(profiles, selected, <<>>, q)
         IN  Apply("refresh", "", r, After(r))

KeyReload ==
    /\ pc = "poll"
    /\ \E st \in Outcomes, q \in Queries :
         LET r == reload_all(profiles, selected, <<>>, st, q)
         IN  Apply("reload", "", r, After(r))

KeyEdit ==
    /\ pc = "poll"
    /\ \E ed \in Outcomes, st \in Outcomes, q \in Queries :
         LET r == edit_profile(profiles, selected, ed, st, q)
         IN  Apply("edit", "", r, After(r))

\* disable_raw_mode, LeaveAlternateScreen, show_cursor after the break.
Teardown ==
    /\ pc = "teardown"
    /\ \E failAt \in {"none", "disable_raw_mode", "LeaveAlternateScreen", "show_cursor"} :
         /\ rawMode' = (failAt = "disable_raw_mode")
         /\ altScreen' = (failAt \in {"disable_raw_mode", "LeaveAlternateScreen"})
         /\ pc' = IF failAt = "none" THEN "exit_ok" ELSE "exit_err"
    /\ last' = [NoLast EXCEPT !.op = "teardown"]
    /\ UNCHANGED <<profiles, selected, stdout, overflowChecks>>

Next ==
    \/ Setup
    \/ InitialLoad
    \/ Draw
    \/ NoAction
    \/ PollError
    \/ KeyQuit
    \/ KeyDown
    \/ KeyUp
    \/ KeyMode
    \/ KeyRefresh
    \/ KeyReload
    \/ KeyEdit
    \/ Teardown

Spec == Init /\ [][Next]_vars

TypeOK ==
    /\ pc \in {"start", "load", "draw", "poll", "teardown", "exit_ok", "exit_err",
              "panicked", "parse", "parsed", "edit", "edited"}
    /\ selected = None \/ (IsSome(selected) /\ Unwrap(selected) \in 0..UsizeMax)
    /\ \A k \in 1..Len(profiles) : profiles[k][2] \in Modes


(***************************************************************************)
(* The parser on its own: load_profiles applied once to an arbitrary       *)
(* status text of at most MaxTextLen characters.                           *)
(***************************************************************************)
\* The texts of exactly n characters.
Texts(n) == [1..n -> ParseChars]

InitParse ==
    /\ pc = "parse"
    /\ profiles = <<>>
    /\ selected = None
    /\ \E n \in 0..MaxTextLen : stdout \in Texts(n)
    /\ last = NoLast
    /\ overflowChecks = FALSE
    /\ rawMode = FALSE
    /\ altScreen = FALSE

\* load_profiles on a status query that printed stdout.
Parse ==
    /\ pc = "parse"
    /\ LET r == Load(profiles, selected, <<>>, Query("ok", stdout))
       IN  Apply("parse", "", [r EXCEPT !.out = None], "parsed")

NextParse == Parse

SpecParse == InitParse /\ [][NextParse]_vars


(***************************************************************************)
(* The parse of a status text, stated line by line rather than as a loop.  *)
(***************************************************************************)
MarkerMode(m) ==
    CASE m = EnforceMarker -> "Enforce"
      [] m = ComplainMarker -> "Complain"
      [] m = KillMarker -> "Kill"
      [] m = AuditMarker -> "Audit"

\* A header line is a line that contains one of the markers.
IsHeaderLine(ln) == \E m \in Markers : Contains(ln, m)
\* The modes a header line declares.
DeclaredModes(ln) == {MarkerMode(m) : m \in {x \in Markers : Contains(ln, x)}}
HeadersBefore(L, j) == {h \in 1..(j - 1) : IsHeaderLine(L[h])}
NearestHeader(L, j) ==
    CHOOSE h \in HeadersBefore(L, j) : \A g \in HeadersBefore(L, j) : g <= h
\* Line j is an identifier line that follows a header.
IsIdentLine(L, j) ==
    /\ ~IsHeaderLine(L[j])
    /\ Trim(L[j]) # <<>>
    /\ Head(Trim(L[j])) \in {"/", "{"}
    /\ HeadersBefore(L, j) # {}
EmitIdx(L) == {j \in 1..Len(L) : IsIdentLine(L, j)}
\* The line the k-th emitted profile comes from.
SourceLine(L, k) ==
    CHOOSE j \in EmitIdx(L) : Cardinality({i \in EmitIdx(L) : i <= j}) = k
\* The sequence of profiles a status text stands for.
ParseOf(text) ==
    LET L == Lines(text)
        n == Cardinality(EmitIdx(L))
    IN  IF n = 0 THEN <<>>
        ELSE [k \in 1..n |->
                <<Trim(L[SourceLine(L, k)]),
                  Unwrap(HeaderMode(L[NearestHeader(L, SourceLine(L, k))]))>>]

InLoopOps == {"next", "previous", "change_mode", "refresh", "reload", "edit"}
LoadingOps == {"initial_load", "refresh", "change_mode", "reload", "edit"}
\* The status query the last operation ended with, if it made one.
LastQueried == last.cmds # <<>> /\ last.cmds[Len(last.cmds)].cmd = "aa-status"
LastQueryStatus == last.cmds[Len(last.cmds)].status
QueriesMade == Cardinality({k \in 1..Len(last.cmds) : last.cmds[k].cmd = "aa-status"})

(***************************************************************************)
(* C1.  Whenever the sequence is non-empty and an index is selected, the   *)
(* index is below the length of the sequence.                              *)
(***************************************************************************)
C1_SelectedInRange ==
    (profiles # <<>> /\ IsSome(selected)) => Unwrap(selected) < Len(profiles)

(***************************************************************************)
(* C2.  An empty sequence has no selection: a load that replaces a         *)
(* non-empty sequence with a selection by an empty one clears the          *)
(* selection.                                                              *)
(***************************************************************************)
C2_EmptyLoadClearsSelection ==
    (/\ last.op \in LoadingOps
     /\ last.profiles0 # <<>>
     /\ IsSome(last.selected0)
     /\ profiles = <<>>) => selected = None

(***************************************************************************)
(* C3.  A mode change whose command does not start or exits non-zero       *)
(* leaves sequence and selection as they were and makes no status query.   *)
(***************************************************************************)
C3_FailedModeChangeLeavesRegistry ==
    (/\ last.op = "change_mode"
     /\ last.cmds # <<>>
     /\ last.cmds[1].status # "ok")
        => /\ profiles = last.profiles0
           /\ selected = last.selected0
           /\ QueriesMade = 0
           /\ pc = "draw"

C3_Witness ==
    /\ last.op = "change_mode"
    /\ last.cmds # <<>>
    /\ last.cmds[1].status = "nonzero"
    /\ Len(profiles) >= 2

(***************************************************************************)
(* C4.  A mode change whose command exits with status 0 makes exactly one  *)
(* status query; the sequence afterwards is the parse of what that query   *)
(* printed (and the old sequence if the query printed nothing because it   *)
(* failed), never the old sequence with the requested mode written in.     *)
(***************************************************************************)
C4_SuccessfulModeChangeReconciles ==
    (/\ last.op = "change_mode"
     /\ last.cmds # <<>>
     /\ last.cmds[1].status = "ok")
        => /\ QueriesMade = 1
           /\ LastQueried
           /\ LastQueryStatus = "ok" => profiles = ParseOf(stdout)
           /\ LastQueryStatus # "ok" => profiles = last.profiles0

\* The tool succeeded, yet the status tool still reports the old mode of
\* the selected profile, and the registry shows that old mode.
C4_Witness ==
    /\ last.op = "change_mode"
    /\ last.arg = "Complain"
    /\ last.cmds # <<>>
    /\ last.cmds[1].status = "ok"
    /\ LastQueried /\ LastQueryStatus = "ok"
    /\ IsSome(selected) /\ Unwrap(selected) < Len(profiles)
    /\ profiles[Unwrap(selected) + 1] = <<last.cmds[1].arg, "Enforce">>
    /\ profiles # last.profiles0

(***************************************************************************)
(* C5.  No in-loop action crashes the loop: after select next / previous,  *)
(* a mode change, a refresh, a reload or an edit, the loop is back at its  *)
(* draw.                                                                   *)
(***************************************************************************)
C5_NoActionCrashesLoop ==
    /\ pc # "panicked"
    /\ last.op \in InLoopOps => pc = "draw"

(***************************************************************************)
(* C6.  When the status query of an in-loop action fails, sequence and     *)
(* selection are as they were before the action.                           *)
(***************************************************************************)
C6_FailedQueryLeavesRegistry ==
    (/\ last.op \in InLoopOps
     /\ LastQueried
     /\ LastQueryStatus # "ok")
        => /\ profiles = last.profiles0
           /\ selected = last.selected0

C6_Witness ==
    /\ last.op \in {"change_mode", "reload", "edit"}
    /\ LastQueried
    /\ LastQueryStatus = "nonzero"
    /\ Len(profiles) >= 2
    /\ IsSome(selected)

(***************************************************************************)
(* C7.  On an empty sequence select next and select previous are no-ops:   *)
(* the selection is None before and None after.                            *)
(***************************************************************************)
C7_MovesOnEmptyAreNoOps ==
    (/\ last.op \in {"next", "previous"}
     /\ last.profiles0 = <<>>)
        => /\ last.selected0 = None
           /\ selected = None
           /\ profiles = <<>>
           /\ pc = "draw"

(***************************************************************************)
(* C8.  On a sequence of length N >= 1 with selected index i < N, select   *)
(* next selects (i+1) mod N, select previous selects (i-1+N) mod N, and    *)
(* the sequence is unchanged.                                              *)
(***************************************************************************)
C8_CyclicMoves ==
    LET N == Len(last.profiles0)
        i == Unwrap(last.selected0)
    IN  (/\ last.op \in {"next", "previous"}
         /\ N >= 1
         /\ IsSome(last.selected0)
         /\ i < N)
            => /\ profiles = last.profiles0
               /\ pc = "draw"
               /\ last.op = "next" => selected = Some((i + 1) % N)
               /\ last.op = "previous" => selected = Some((i - 1 + N) % N)

\* select next from the last of at least two entries.
C8_Witness ==
    /\ last.op = "next"
    /\ Len(profiles) >= 2
    /\ last.selected0 = Some(Len(profiles) - 1)
    /\ selected = Some(0)

(***************************************************************************)
(* C9.  Every profile the parser emits carries a mode declared by the      *)
(* nearest header line above the line it comes from; a line with no        *)
(* header above it emits nothing.                                          *)
(***************************************************************************)
C9_ModeOfNearestHeader ==
    pc = "parsed" =>
        LET L == Lines(stdout)
        IN  /\ Len(profiles) = Cardinality(EmitIdx(L))
            /\ \A k \in 1..Len(profiles) :
                 profiles[k][2] \in DeclaredModes(L[NearestHeader(L, SourceLine(L, k))])

\* Two headers of different modes above one identifier, the nearer one
\* with text around its marker.
C9_Witness ==
    /\ pc = "parsed"
    /\ Len(profiles) = 1
    /\ LET L == Lines(stdout)
       IN  /\ Len(L) = 3
           /\ L[1] = <<EnforceMarker>>
           /\ Len(L[2]) = 2 /\ Contains(L[2], ComplainMarker)
           /\ profiles[1][2] = "Complain"

(***************************************************************************)
(* C10.  The identifiers of the parser's output are, in input order, the   *)
(* trimmed non-header lines that start with '/' or '{' and follow a        *)
(* header line.                                                            *)
(***************************************************************************)
C10_IdentifiersOfOutput ==
    pc = "parsed" =>
        LET L == Lines(stdout)
        IN  /\ Len(profiles) = Cardinality(EmitIdx(L))
            /\ \A k \in 1..Len(profiles) :
                 profiles[k][1] = Trim(L[SourceLine(L, k)])

\* A header line that itself starts with '/', then an indented identifier.
C10_Witness ==
    /\ pc = "parsed"
    /\ LET L == Lines(stdout)
       IN  /\ Len(L) = 2
           /\ StartsWith(L[1], "/") /\ IsHeaderLine(L[1])
           /\ StartsWith(L[2], Space)
           /\ Len(profiles) = 1
           /\ profiles[1][1] = <<"/">>

\* The operations that end in a load that may replace a selected registry.
ReconcilingOps == {"refresh", "change_mode", "reload", "edit"}
\* The last operation made a status query and it succeeded.
LastLoaded == LastQueried /\ LastQueryStatus = "ok"

(***************************************************************************)
(* C11.  A load that produces a non-empty sequence while nothing was       *)
(* selected before it selects index 0, also when it is a manual refresh    *)
(* after an initial load that found nothing.                               *)
(***************************************************************************)
C11_FirstLoadSelectsFirst ==
    (/\ last.op \in LoadingOps
     /\ LastLoaded
     /\ last.selected0 = None
     /\ profiles # <<>>) => selected = Some(0)

(***************************************************************************)
(* C12.  A reconciliation made while a profile was selected leaves the     *)
(* selection on the entry with the same identifier if the new sequence     *)
(* has one, and on index 0 if it has none.                                 *)
(***************************************************************************)
C12_SelectionFollowsIdentifier ==
    (/\ last.op \in ReconcilingOps
     /\ LastLoaded
     /\ IsSome(last.selected0)
     /\ Unwrap(last.selected0) < Len(last.profiles0)
     /\ profiles # <<>>)
        => LET id == last.profiles0[Unwrap(last.selected0) + 1][1]
           IN  IF \E k \in 1..Len(profiles) : profiles[k][1] = id
               THEN /\ IsSome(selected)
                    /\ Unwrap(selected) < Len(profiles)
                    /\ profiles[Unwrap(selected) + 1][1] = id
               ELSE selected = Some(0)

(***************************************************************************)
(* C13.  A mode change, reload or edit returns an error whenever the       *)
(* command it ran (mode tool, service reload, editor) could not start or   *)
(* exited non-zero, and success only when that command exited with 0.      *)
(***************************************************************************)
C13_ResultMatchesCommand ==
    (/\ last.op \in {"change_mode", "reload", "edit"}
     /\ last.result # "panic")
        => \A k \in 1..Len(last.cmds) :
             (last.cmds[k].cmd # "aa-status" /\ last.cmds[k].status # "ok")
                 => last.result = "Err"

(***************************************************************************)
(* change_mode(Mode::Kill).  No key of main asks for it; the interaction   *)
(* loop is extended by a caller that does, from the states the loop can    *)
(* be in when it dispatches a key.                                         *)
(***************************************************************************)
KillCall ==
    /\ pc = "poll"
    /\ \E st \in Outcomes, q \in Queries :
         LET r == change_mode(profiles, selected, "Kill", st, q)
         IN  Apply("change_mode", "Kill", r, After(r))

NextKill == Next \/ KillCall

SpecKill == Init /\ [][NextKill]_vars

(***************************************************************************)
(* C14.  A mode change to Kill is a no-op in every state: it runs no       *)
(* command and no status query, reports success and leaves sequence and    *)
(* selection unchanged.                                                    *)
(***************************************************************************)
C14_KillIsNoOp ==
    (last.op = "change_mode" /\ last.arg = "Kill")
        => /\ last.cmds = <<>>
           /\ last.result = "Ok"
           /\ profiles = last.profiles0
           /\ selected = last.selected0
           /\ pc = "draw"

(***************************************************************************)
(* C15.  The edit action runs editor, then service reload, then status     *)
(* query: the reload only after the editor exited with 0, the query only   *)
(* after the reload exited with 0; when the editor or the reload fails,    *)
(* nothing later is run and the registry is unchanged.                     *)
(***************************************************************************)
C15_EditOrder ==
    LET c == last.cmds
    IN  (last.op = "edit" /\ c # <<>>)
            => /\ Len(c) <= 3
               /\ c[1].cmd = "vim"
               /\ Len(c) >= 2 <=> c[1].status = "ok"
               /\ Len(c) >= 2 => c[2].cmd = "systemctl"
               /\ Len(c) = 3 <=> (c[1].status = "ok" /\ c[2].status = "ok")
               /\ Len(c) = 3 => c[3].cmd = "aa-status"
               /\ (\E k \in 1..Len(c) : k <= 2 /\ c[k].status # "ok")
                     => /\ profiles = last.profiles0
                        /\ selected = last.selected0

\* The editor exited with 0, the reload did not, and the edit stopped there.
C15_Witness ==
    /\ last.op = "edit"
    /\ Len(last.cmds) = 2
    /\ last.cmds[1].status = "ok"
    /\ last.cmds[2].status = "nonzero"
    /\ Len(profiles) >= 2

(***************************************************************************)
(* C16.  Between actions the sequence is the initial empty one or the      *)
(* parse of the whole output of one successful status query: an action     *)
(* either leaves the sequence as it was or replaces it by the parse of     *)
(* the output it read, so a refresh against the text of the previous       *)
(* refresh changes nothing.                                                *)
(***************************************************************************)
C16_WhollyReplaced ==
    /\ profiles = ParseOf(stdout)
    /\ last.op \in InLoopOps =>
         \/ profiles = last.profiles0 /\ ~LastLoaded
         \/ LastLoaded /\ profiles = ParseOf(stdout)

\* A refresh over a non-empty registry that reads the text the registry
\* was built from.
C16_Witness ==
    /\ last.op = "refresh"
    /\ LastLoaded
    /\ Len(last.profiles0) >= 2
    /\ profiles = last.profiles0

(***************************************************************************)
(* The edit action on its own: edit_profile applied once to a registry of  *)
(* one selected profile whose identifier is any sequence of at most        *)
(* MaxIdLen characters that the parser can emit (it starts with '/' or     *)
(* '{').                                                                   *)
(***************************************************************************)
IdChars == {"/", "{", "x", "."}
Identifiers ==
    UNION {{id \in [1..n -> IdChars] : IsProfileLine(id)} : n \in 1..MaxIdLen}

InitPath ==
    /\ pc = "edit"
    /\ \E id \in Identifiers, mode \in {"Enforce", "Complain"} :
         profiles = <<<<id, mode>>>>
    /\ selected = Some(0)
    /\ stdout = <<>>
    /\ last = NoLast
    /\ overflowChecks = FALSE
    /\ rawMode = TRUE
    /\ altScreen = TRUE

EditCall ==
    /\ pc = "edit"
    /\ \E ed \in Outcomes, st \in Outcomes, q \in Queries :
         LET r == edit_profile(profiles, selected, ed, st, q)
         IN  Apply("edit", "", r, "edited")

NextPath == EditCall

SpecPath == InitPath /\ [][NextPath]_vars

\* The file name the claim gives for an identifier.
DerivedFile(id) ==
    IF id[1] = "/"
    THEN IF Len(id) = 1 THEN <<>>
         ELSE [k \in 1..(Len(id) - 1) |-> IF id[k + 1] = "/" THEN "." ELSE id[k + 1]]
    ELSE id

(***************************************************************************)
(* C17.  The path the editor is given is the policy root followed by: the  *)
(* identifier without its leading '/' and with every other '/' replaced    *)
(* by '.', when it starts with '/'; the identifier as it is otherwise.     *)
(***************************************************************************)
C17_EditPath ==
    (last.op = "edit" /\ last.cmds # <<>>)
        => LET id == last.profiles0[Unwrap(last.selected0) + 1][1]
           IN  /\ last.cmds[1].cmd = "vim"
               /\ last.cmds[1].arg = <<PolicyRoot>> \o DerivedFile(id)

\* An identifier with two '/' after the leading one.
C17_Witness ==
    /\ pc = "edited"
    /\ last.cmds # <<>>
    /\ LET id == last.profiles0[1][1]
       IN  /\ id[1] = "/"
           /\ Cardinality({k \in 2..Len(id) : id[k] = "/"}) >= 2
           /\ \A k \in 2..Len(last.cmds[1].arg) : last.cmds[1].arg[k] # "/"

(***************************************************************************)
(* C18.  Raw mode and the alternate screen, once acquired, are given back  *)
(* on every way out of the program: the normal quit, a failed initial      *)
(* load, a failed draw, poll or read.                                      *)
(***************************************************************************)
C18_TerminalRestored ==
    (\/ pc = "exit_ok"
     \/ pc = "exit_err" /\ last.op \in {"initial_load", "draw", "poll_error"})
        => ~rawMode /\ ~altScreen

(***************************************************************************)
(* C19.  No entry of the registry has mode Disable.  A line that is none   *)
(* of the four headers leaves the current mode alone: an identifier line   *)
(* after it is emitted with the mode of the last recognized header.        *)
(***************************************************************************)
C19_NoDisableFromParser ==
    pc = "parsed" =>
        LET L == Lines(stdout)
        IN  /\ \A k \in 1..Len(profiles) : profiles[k][2] \in Modes \ {"Disable"}
            /\ Len(profiles) = Cardinality(EmitIdx(L))
            /\ \A k \in 1..Len(profiles) :
                 LET j == SourceLine(L, k)
                     h == NearestHeader(L, j)
                 IN  (\E g \in (h + 1)..(j - 1) : ~IsProfileLine(Trim(L[g])))
                         => profiles[k][2] \in DeclaredModes(L[h])

\* A header, a line announcing some other section, then an identifier: it
\* is emitted with the mode of the header.
C19_Witness ==
    /\ pc = "parsed"
    /\ LET L == Lines(stdout)
       IN  /\ Len(L) = 3
           /\ IsHeaderLine(L[1])
           /\ StartsWith(L[2], "x")
           /\ IsProfileLine(Trim(L[3]))
           /\ Len(profiles) = 1
           /\ profiles[1][2] \in DeclaredModes(L[1])

(***************************************************************************)
(* C20.  load_profiles never changes the selected index: after a manual    *)
(* refresh, or after the reconciliation of a mode change, reload or edit,  *)
(* the index is the number it was before, whatever the new sequence is.    *)
(***************************************************************************)
C20_LoadKeepsIndex ==
    (last.op \in ReconcilingOps /\ LastQueried) => selected = last.selected0

\* A reconciliation that shortened the sequence below the selected index.
C20_Witness ==
    /\ last.op \in ReconcilingOps
    /\ LastLoaded
    /\ IsSome(selected)
    /\ Len(profiles) < Len(last.profiles0)
    /\ Unwrap(selected) >= Len(profiles)

====
